---- MODULE Spec2Model ----
(***************************************************************************)
(* TelaMentis: the in-memory GraphStore (adapters/in_memory), the request  *)
(* pipeline runner (core/pipeline.rs) and the extraction-envelope          *)
(* validation of the LLM connectors, as state machines.                    *)
(***************************************************************************)
EXTENDS Integers, Sequences, FiniteSets, TLC

(***************************************************************************)
(* Bounds of the model and the small input domains.                        *)
(***************************************************************************)
MaxNodeMints == 2
MaxEdgeMints == 2
MaxTime == 2
CapNodes == 1
CapEdges == 1

NoId == 0
NoTime == -1
NoLimit == -1
NoAlias == "<none>"
NoNode == [id_alias |-> NoAlias, label |-> "<none>", props |-> {}]

Tenants == {"T1", "T2"}
Labels == {"Person", "Company"}
Aliases == {"alice"}
Kinds == {"KNOWS", "WORKS_FOR"}
PropBags == {{}, {<<"age", 30>>}}
Times == 0..MaxTime
Ids == 1..(MaxNodeMints + MaxEdgeMints)

VARIABLES
    store,      \* MemoryStore: the two primary maps and the six indices
    config,     \* InMemoryConfig: max_nodes, max_edges
    minted,     \* how many node ids and edge ids Uuid::new_v4 has handed out
    clock,      \* the last value Utc::now() returned
    deleted,    \* history: ids of the nodes delete_node has removed
    cascaded,   \* history: ids of the edges those deletions took with them
    lock,       \* InMemoryStore.store's RwLock: who holds it, who waits for it
    tasks,      \* the tasks that call the store: where each is in its call
    plugins,    \* PipelineRunner.plugins: stage -> the plugins registered, in order
    pc,         \* where PipelineRunner::execute is: "idle", "running" or "returned"
    stage,      \* the stage execute_stage is running
    index,      \* the position of its loop in the stage's plugins (from 1)
    broke,      \* its loop has left through `break`
    ctx,        \* the RequestContext passed from plugin to plugin
    calls,      \* history: the plugin calls made for this request, with outcomes
    inits,      \* history: how many times the program has called a plugin's init
    result,     \* what execute returned
    handler,    \* where a wire adapter's node-write handler is
    request,    \* the tenant and the node of the write it handles
    op_at,      \* history: how many plugin calls were made when it called the store
    envelope,   \* the ExtractionEnvelope a connector parsed
    validation  \* what validate_extraction_envelope returned for it

storeVars == <<store, config, minted, clock, deleted, cascaded>>
handlerVars == <<handler, request, op_at>>
pipelineVars == <<plugins, pc, stage, index, broke, ctx, calls, inits, result,
                  handler, request, op_at>>
envelopeVars == <<envelope, validation>>
lockVars == <<lock, tasks>>
vars == <<storeVars, pipelineVars, envelopeVars, lockVars>>

(***************************************************************************)
(* HashMap and Vec helpers.  An index bucket that is absent and one that   *)
(* is an empty Vec are the same value here: every read of a bucket goes    *)
(* through unwrap_or_default() or `if let Some`.                           *)
(***************************************************************************)
Put(m, k, v) == [x \in (DOMAIN m) \cup {k} |-> IF x = k THEN v ELSE m[x]]
Del(m, k) == [x \in (DOMAIN m) \ {k} |-> m[x]]
Retain(s, id) == SelectSeq(s, LAMBDA x : x # id)
Range(s) == {s[i] : i \in 1..Len(s)}

MemoryStore_new ==
    [nodes |-> <<>>,
     edges |-> <<>>,
     nodes_by_tenant |-> [t \in Tenants |-> <<>>],
     edges_by_tenant |-> [t \in Tenants |-> <<>>],
     nodes_by_alias |-> [k \in Tenants \X Aliases |-> NoId],
     nodes_by_label |-> [k \in Tenants \X Labels |-> <<>>],
     edges_from_node |-> [i \in Ids |-> <<>>],
     edges_to_node |-> [i \in Ids |-> <<>>]]

insert_node(s, id, node, tenant_id) ==
    [s EXCEPT
        !.nodes = Put(@, id, [id |-> id, node |-> node, tenant_id |-> tenant_id]),
        !.nodes_by_tenant[tenant_id] = Append(@, id),
        !.nodes_by_alias = IF node.id_alias # NoAlias
                           THEN [@ EXCEPT ![<<tenant_id, node.id_alias>>] = id]
                           ELSE @,
        !.nodes_by_label[<<tenant_id, node.label>>] = Append(@, id)]

\* an insertion that writes over a stored edge of the same from, to and kind
insert_edge_over_same(s, id, edge, tenant_id) ==
    LET same == {x \in DOMAIN s.edges :
                    /\ s.edges[x].edge.from_node_id = edge.from_node_id
                    /\ s.edges[x].edge.to_node_id = edge.to_node_id
                    /\ s.edges[x].edge.kind = edge.kind}
    IN  IF same # {}
        THEN [s EXCEPT !.edges[CHOOSE x \in same : TRUE].edge = edge]
        ELSE [s EXCEPT
                !.edges = Put(@, id, [id |-> id, edge |-> edge, tenant_id |-> tenant_id]),
                !.edges_by_tenant[tenant_id] = Append(@, id),
                !.edges_from_node[edge.from_node_id] = Append(@, id),
                !.edges_to_node[edge.to_node_id] = Append(@, id)]

insert_edge(s, id, edge, tenant_id) ==
    [s EXCEPT
        !.edges = Put(@, id, [id |-> id, edge |-> edge, tenant_id |-> tenant_id]),
        !.edges_by_tenant[tenant_id] = Append(@, id),
        !.edges_from_node[edge.from_node_id] = Append(@, id),
        !.edges_to_node[edge.to_node_id] = Append(@, id)]

\* a removal of an edge that leaves the to-node's adjacency bucket alone
remove_edge_keeps_to_bucket(s, id, tenant_id) ==
    IF id \in DOMAIN s.edges
    THEN LET stored_edge == s.edges[id]
             s1 == [s EXCEPT !.edges = Del(@, id),
                             !.edges_by_tenant[tenant_id] = Retain(@, id)]
         IN  [s1 EXCEPT !.edges_from_node[stored_edge.edge.from_node_id] = Retain(@, id)]
    ELSE s

remove_edge(s, id, tenant_id) ==
    IF id \in DOMAIN s.edges
    THEN LET stored_edge == s.edges[id]
             s1 == [s EXCEPT !.edges = Del(@, id),
                             !.edges_by_tenant[tenant_id] = Retain(@, id)]
             s2 == [s1 EXCEPT !.edges_from_node[stored_edge.edge.from_node_id] = Retain(@, id)]
         IN  [s2 EXCEPT !.edges_to_node[stored_edge.edge.to_node_id] = Retain(@, id)]
    ELSE s

RECURSIVE remove_edges(_, _, _)
remove_edges(s, edge_ids, tenant_id) ==
    IF edge_ids = <<>> THEN s
    ELSE remove_edges(remove_edge(s, Head(edge_ids), tenant_id), Tail(edge_ids), tenant_id)

\* a removal of a node that takes its outgoing edges with it and not its
\* incoming ones
remove_node_outgoing_only(s, id, tenant_id) ==
    IF id \in DOMAIN s.nodes
    THEN LET stored_node == s.nodes[id]
             s1 == [s EXCEPT
                       !.nodes = Del(@, id),
                       !.nodes_by_tenant[tenant_id] = Retain(@, id),
                       !.nodes_by_alias = IF stored_node.node.id_alias # NoAlias
                                          THEN [@ EXCEPT ![<<tenant_id, stored_node.node.id_alias>>] = NoId]
                                          ELSE @,
                       !.nodes_by_label[<<tenant_id, stored_node.node.label>>] = Retain(@, id)]
             s2 == remove_edges(s1, s1.edges_from_node[id], tenant_id)
         IN  [s2 EXCEPT !.edges_from_node[id] = <<>>]
    ELSE s

\* a removal that clears the indices and the edges but keeps the node's record
remove_node_keeps_record(s, id, tenant_id) ==
    IF id \in DOMAIN s.nodes
    THEN LET s1 == [s EXCEPT !.nodes_by_tenant[tenant_id] = Retain(@, id)]
             s2 == remove_edges(s1, s1.edges_from_node[id] \o s1.edges_to_node[id], tenant_id)
         IN  [s2 EXCEPT !.edges_from_node[id] = <<>>, !.edges_to_node[id] = <<>>]
    ELSE s

\* a removal that leaves the node's alias in the alias index
remove_node_keeps_alias(s, id, tenant_id) ==
    IF id \in DOMAIN s.nodes
    THEN LET stored_node == s.nodes[id]
             s1 == [s EXCEPT
                       !.nodes = Del(@, id),
                       !.nodes_by_tenant[tenant_id] = Retain(@, id),
                       !.nodes_by_label[<<tenant_id, stored_node.node.label>>] = Retain(@, id)]
             edges_to_remove == s1.edges_from_node[id] \o s1.edges_to_node[id]
             s2 == remove_edges(s1, edges_to_remove, tenant_id)
         IN  [s2 EXCEPT !.edges_from_node[id] = <<>>, !.edges_to_node[id] = <<>>]
    ELSE s

remove_node(s, id, tenant_id) ==
    IF id \in DOMAIN s.nodes
    THEN LET stored_node == s.nodes[id]
             s1 == [s EXCEPT
                       !.nodes = Del(@, id),
                       !.nodes_by_tenant[tenant_id] = Retain(@, id),
                       !.nodes_by_alias = IF stored_node.node.id_alias # NoAlias
                                          THEN [@ EXCEPT ![<<tenant_id, stored_node.node.id_alias>>] = NoId]
                                          ELSE @,
                       !.nodes_by_label[<<tenant_id, stored_node.node.label>>] = Retain(@, id)]
             edges_to_remove == s1.edges_from_node[id] \o s1.edges_to_node[id]
             s2 == remove_edges(s1, edges_to_remove, tenant_id)
         IN  [s2 EXCEPT !.edges_from_node[id] = <<>>, !.edges_to_node[id] = <<>>]
    ELSE s

(***************************************************************************)
(* GraphStore::query, a read of the store under the shared lock.           *)
(***************************************************************************)
PathNode(stored_node) ==
    [id |-> stored_node.id,
     labels |-> <<stored_node.node.label>>,
     properties |-> stored_node.node.props]

\* every (key, expected_value) of the filter is a property of the node
props_match(stored_node, properties) ==
    \A kv \in properties :
        \E av \in stored_node.node.props : av[1] = kv[1] /\ av[2] = kv[2]

RECURSIVE label_candidates(_, _, _)
label_candidates(s, tenant, labels) ==
    IF labels = <<>> THEN <<>>
    ELSE s.nodes_by_label[<<tenant, Head(labels)>>]
            \o label_candidates(s, tenant, Tail(labels))

RECURSIVE find_nodes_loop(_, _, _, _, _)
find_nodes_loop(s, candidate_ids, properties, limit, matching_nodes) ==
    IF candidate_ids = <<>> THEN matching_nodes
    ELSE LET node_id == Head(candidate_ids) IN
         IF node_id \in DOMAIN s.nodes /\ props_match(s.nodes[node_id], properties)
         THEN LET pushed == Append(matching_nodes,
                                   [nodes |-> <<PathNode(s.nodes[node_id])>>,
                                    relationships |-> <<>>])
              IN  IF limit # NoLimit /\ Len(pushed) >= limit
                  THEN pushed
                  ELSE find_nodes_loop(s, Tail(candidate_ids), properties, limit, pushed)
         ELSE find_nodes_loop(s, Tail(candidate_ids), properties, limit, matching_nodes)

find_nodes(s, tenant, q) ==
    LET candidate_ids == IF q.labels = <<>>
                         THEN s.nodes_by_tenant[tenant]
                         ELSE label_candidates(s, tenant, q.labels)
    IN  find_nodes_loop(s, candidate_ids, q.properties, q.limit, <<>>)

\* was_valid_at with the end of the interval included
was_valid_at_closed(edge, timestamp) ==
    /\ edge.valid_from <= timestamp
    /\ (edge.valid_to = NoTime \/ timestamp <= edge.valid_to)

\* TimeEdge::was_valid_at
was_valid_at(edge, timestamp) ==
    /\ edge.valid_from <= timestamp
    /\ (edge.valid_to = NoTime \/ timestamp < edge.valid_to)

\* the filters without the test of the edge's tenant
edge_passes_any_tenant(stored_edge, tenant, q) ==
    /\ (q.from_node_id # NoId => stored_edge.edge.from_node_id = q.from_node_id)
    /\ (q.to_node_id # NoId => stored_edge.edge.to_node_id = q.to_node_id)
    /\ (q.relationship_types = <<>> \/ stored_edge.edge.kind \in Range(q.relationship_types))
    /\ (q.valid_at # NoTime => (/\ stored_edge.edge.valid_from <= q.valid_at
                                /\ (stored_edge.edge.valid_to = NoTime
                                      \/ q.valid_at < stored_edge.edge.valid_to)))

\* the filters of the FindRelationships loop, in the order of the code
edge_passes(stored_edge, tenant, q) ==
    /\ stored_edge.tenant_id = tenant
    /\ (q.from_node_id # NoId => stored_edge.edge.from_node_id = q.from_node_id)
    /\ (q.to_node_id # NoId => stored_edge.edge.to_node_id = q.to_node_id)
    /\ (q.relationship_types = <<>> \/ stored_edge.edge.kind \in Range(q.relationship_types))
    /\ (q.valid_at # NoTime => was_valid_at(stored_edge.edge, q.valid_at))

RelPath(s, stored_edge) ==
    [nodes |-> <<PathNode(s.nodes[stored_edge.edge.from_node_id]),
                 PathNode(s.nodes[stored_edge.edge.to_node_id])>>,
     relationships |-> <<[id |-> stored_edge.id,
                          rel_type |-> stored_edge.edge.kind,
                          start_node_id |-> stored_edge.edge.from_node_id,
                          end_node_id |-> stored_edge.edge.to_node_id,
                          properties |-> stored_edge.edge.props]>>]

RECURSIVE find_relationships_loop(_, _, _, _, _)
find_relationships_loop(s, candidate_ids, tenant, q, matching_paths) ==
    IF candidate_ids = <<>> THEN matching_paths
    ELSE LET edge_id == Head(candidate_ids) IN
         IF /\ edge_id \in DOMAIN s.edges
            /\ edge_passes(s.edges[edge_id], tenant, q)
            /\ s.edges[edge_id].edge.from_node_id \in DOMAIN s.nodes
            /\ s.edges[edge_id].edge.to_node_id \in DOMAIN s.nodes
         THEN LET pushed == Append(matching_paths, RelPath(s, s.edges[edge_id]))
              IN  IF q.limit # NoLimit /\ Len(pushed) >= q.limit
                  THEN pushed
                  ELSE find_relationships_loop(s, Tail(candidate_ids), tenant, q, pushed)
         ELSE find_relationships_loop(s, Tail(candidate_ids), tenant, q, matching_paths)

find_relationships(s, tenant, q) ==
    LET candidate_ids == IF q.from_node_id # NoId
                         THEN s.edges_from_node[q.from_node_id]
                         ELSE IF q.to_node_id # NoId
                              THEN s.edges_to_node[q.to_node_id]
                              ELSE s.edges_by_tenant[tenant]
    IN  find_relationships_loop(s, candidate_ids, tenant, q, <<>>)

\* a rewrite that lets the base's own valid_at stand when it has one
as_of_rewrite_keeps_valid_at(base_query, as_of_time) ==
    [type |-> "FindRelationships",
     from_node_id |-> base_query.from_node_id,
     to_node_id |-> base_query.to_node_id,
     relationship_types |-> base_query.relationship_types,
     valid_at |-> IF base_query.valid_at # NoTime THEN base_query.valid_at ELSE as_of_time,
     limit |-> base_query.limit]

\* AsOfQuery: the base's fields carried over, valid_at replaced by as_of_time
as_of_rewrite(base_query, as_of_time) ==
    [type |-> "FindRelationships",
     from_node_id |-> base_query.from_node_id,
     to_node_id |-> base_query.to_node_id,
     relationship_types |-> base_query.relationship_types,
     valid_at |-> as_of_time,
     limit |-> base_query.limit]

\* the result of query(tenant, q): <<kind, paths>>
query(s, tenant, q) ==
    CASE q.type = "FindNodes" -> <<"Ok", find_nodes(s, tenant, q)>>
      [] q.type = "FindRelationships" -> <<"Ok", find_relationships(s, tenant, q)>>
      [] q.type = "Raw" -> <<"QueryFailed", <<>>>>
      [] q.type = "AsOfQuery" ->
            IF q.base_query.type = "FindRelationships"
            THEN <<"Ok", find_relationships(s, tenant,
                                            as_of_rewrite(q.base_query, q.as_of_time))>>
            ELSE <<"Ok", <<>>>>

(***************************************************************************)
(* The GraphStore operations of InMemoryStore.  Each takes the lock for    *)
(* its whole body, so each is one step.  <op>_result is what the call      *)
(* returns and the store it leaves, as a function of the store it finds:   *)
(* Result<_, GraphError> flattened into kind, id and flag (a new record    *)
(* was created / the record was deleted).  A call that returns an error or *)
(* Ok(false) leaves the store as it found it.  The reads (get_node,        *)
(* get_node_by_alias, query) change nothing and are operators on the       *)
(* store.                                                                  *)
(***************************************************************************)
Result(kind, id, flag, s) == [kind |-> kind, id |-> id, flag |-> flag, store |-> s]

\* an upsert_node whose cap test lets the count pass the cap by one
upsert_node_result_cap_late(s, cfg, tenant, node, new_id) ==
    IF cfg.max_nodes # NoLimit /\ Cardinality(DOMAIN s.nodes) > cfg.max_nodes
    THEN Result("ConstraintViolation", NoId, FALSE, s)
    ELSE IF node.id_alias # NoAlias /\ s.nodes_by_alias[<<tenant, node.id_alias>>] # NoId
    THEN LET existing_id == s.nodes_by_alias[<<tenant, node.id_alias>>] IN
         IF existing_id \in DOMAIN s.nodes
         THEN Result("Ok", existing_id, FALSE,
                     [s EXCEPT !.nodes[existing_id].node = node])
         ELSE Result("DatabaseError", NoId, FALSE, s)
    ELSE Result("Ok", new_id, TRUE, insert_node(s, new_id, node, tenant))

upsert_node_result(s, cfg, tenant, node, new_id) ==
    IF cfg.max_nodes # NoLimit /\ Cardinality(DOMAIN s.nodes) >= cfg.max_nodes
    THEN Result("ConstraintViolation", NoId, FALSE, s)
    ELSE IF node.id_alias # NoAlias /\ s.nodes_by_alias[<<tenant, node.id_alias>>] # NoId
    THEN LET existing_id == s.nodes_by_alias[<<tenant, node.id_alias>>] IN
         IF existing_id \in DOMAIN s.nodes
         THEN Result("Ok", existing_id, FALSE,
                     [s EXCEPT !.nodes[existing_id].node = node])
         ELSE Result("DatabaseError", NoId, FALSE, s)
    ELSE Result("Ok", new_id, TRUE, insert_node(s, new_id, node, tenant))

\* lines 330-333: the test compares the field with itself
stamp_transaction_start(edge, now) ==
    IF edge.transaction_start_time = edge.transaction_start_time
    THEN [edge EXCEPT !.transaction_start_time = now]
    ELSE edge

node_exists_in(s, tenant, id) ==
    id \in DOMAIN s.nodes /\ s.nodes[id].tenant_id = tenant

\* an upsert_edge that tests the from endpoint only
upsert_edge_result_from_only(s, cfg, tenant, edge, now, new_id) ==
    IF cfg.max_edges # NoLimit /\ Cardinality(DOMAIN s.edges) >= cfg.max_edges
    THEN Result("ConstraintViolation", NoId, FALSE, s)
    ELSE IF ~node_exists_in(s, tenant, edge.from_node_id)
    THEN Result("NodeNotFound", NoId, FALSE, s)
    ELSE Result("Ok", new_id, TRUE,
                insert_edge(s, new_id, stamp_transaction_start(edge, now), tenant))

upsert_edge_result(s, cfg, tenant, edge, now, new_id) ==
    IF cfg.max_edges # NoLimit /\ Cardinality(DOMAIN s.edges) >= cfg.max_edges
    THEN Result("ConstraintViolation", NoId, FALSE, s)
    ELSE IF ~node_exists_in(s, tenant, edge.from_node_id)
    THEN Result("NodeNotFound", NoId, FALSE, s)
    ELSE IF ~node_exists_in(s, tenant, edge.to_node_id)
    THEN Result("NodeNotFound", NoId, FALSE, s)
    ELSE Result("Ok", new_id, TRUE,
                insert_edge(s, new_id, stamp_transaction_start(edge, now), tenant))

\* a delete_node that does not compare the stored tenant
delete_node_result_any_tenant(s, tenant, id) ==
    IF id \in DOMAIN s.nodes
    THEN Result("Ok", id, TRUE, remove_node(s, id, tenant))
    ELSE Result("Ok", id, FALSE, s)

delete_node_result(s, tenant, id) ==
    IF id \in DOMAIN s.nodes /\ s.nodes[id].tenant_id = tenant
    THEN Result("Ok", id, TRUE, remove_node(s, id, tenant))
    ELSE Result("Ok", id, FALSE, s)

delete_edge_result(s, tenant, id) ==
    IF id \in DOMAIN s.edges /\ s.edges[id].tenant_id = tenant
    THEN Result("Ok", id, TRUE, remove_edge(s, id, tenant))
    ELSE Result("Ok", id, FALSE, s)

\* a get_node that does not compare the stored tenant
get_node_any_tenant(s, tenant, id) ==
    IF id \in DOMAIN s.nodes THEN s.nodes[id].node ELSE NoNode

get_node(s, tenant, id) ==
    IF id \in DOMAIN s.nodes
    THEN IF s.nodes[id].tenant_id = tenant THEN s.nodes[id].node ELSE NoNode
    ELSE NoNode

get_node_by_alias(s, tenant, id_alias) ==
    LET node_id == s.nodes_by_alias[<<tenant, id_alias>>] IN
    IF node_id # NoId
    THEN IF node_id \in DOMAIN s.nodes
         THEN [kind |-> "Ok", id |-> node_id, node |-> s.nodes[node_id].node]
         ELSE [kind |-> "DatabaseError", id |-> NoId, node |-> NoNode]
    ELSE [kind |-> "Ok", id |-> NoId, node |-> NoNode]

next_uuid == minted.nodes + minted.edges + 1

upsert_node(tenant, node) ==
    LET r == upsert_node_result(store, config, tenant, node, next_uuid) IN
    IF r.kind = "Ok"
    THEN /\ r.flag => minted.nodes < MaxNodeMints
         /\ store' = r.store
         /\ minted' = IF r.flag THEN [minted EXCEPT !.nodes = @ + 1] ELSE minted
         /\ UNCHANGED <<config, clock, deleted, cascaded, pipelineVars, envelopeVars, lockVars>>
    ELSE UNCHANGED vars

upsert_edge(tenant, edge, now) ==
    LET r == upsert_edge_result(store, config, tenant, edge, now, next_uuid) IN
    IF r.kind = "Ok"
    THEN /\ minted.edges < MaxEdgeMints
         /\ now >= clock
         /\ store' = r.store
         /\ minted' = [minted EXCEPT !.edges = @ + 1]
         /\ clock' = now
         /\ UNCHANGED <<config, deleted, cascaded, pipelineVars, envelopeVars, lockVars>>
    ELSE UNCHANGED vars

delete_node(tenant, id) ==
    LET r == delete_node_result(store, tenant, id) IN
    IF r.flag
    THEN /\ store' = r.store
         /\ deleted' = deleted \cup {id}
         /\ cascaded' = cascaded \cup ((DOMAIN store.edges) \ (DOMAIN r.store.edges))
         /\ UNCHANGED <<config, minted, clock, pipelineVars, envelopeVars, lockVars>>
    ELSE UNCHANGED vars

delete_edge(tenant, id) ==
    LET r == delete_edge_result(store, tenant, id) IN
    IF r.flag
    THEN /\ store' = r.store
         /\ UNCHANGED <<config, minted, clock, deleted, cascaded, pipelineVars, envelopeVars, lockVars>>
    ELSE UNCHANGED vars

(***************************************************************************)
(* The callers' inputs.                                                    *)
(***************************************************************************)
Configs ==
    {[max_nodes |-> NoLimit, max_edges |-> NoLimit],
     [max_nodes |-> CapNodes, max_edges |-> CapEdges]}

NodeInputs ==
    {[id_alias |-> "alice", label |-> "Person", props |-> {}],
     [id_alias |-> "alice", label |-> "Company", props |-> {<<"age", 30>>}],
     [id_alias |-> NoAlias, label |-> "Person", props |-> {<<"age", 30>>}],
     [id_alias |-> NoAlias, label |-> "Company", props |-> {}]}

\* kind, valid_from, valid_to: an open-ended and a bounded valid-time interval
EdgeShapes == {<<"KNOWS", 0, NoTime>>, <<"WORKS_FOR", 1, 2>>}

EdgeInputs ==
    {[from_node_id |-> f, to_node_id |-> t, kind |-> sh[1],
      valid_from |-> sh[2], valid_to |-> sh[3],
      transaction_start_time |-> 0, transaction_end_time |-> NoTime,
      props |-> {}] : f \in Ids, t \in Ids, sh \in EdgeShapes}

Limits == {NoLimit, 1}

FindNodesInputs ==
    [type : {"FindNodes"}, labels : {<<>>, <<"Person">>, <<"Person", "Company">>},
     properties : PropBags, limit : Limits]

FindRelationshipsQueries(valid_ats, limits) ==
    [type : {"FindRelationships"}, from_node_id : {NoId} \cup Ids,
     to_node_id : {NoId} \cup Ids,
     relationship_types : {<<>>, <<"KNOWS">>},
     valid_at : valid_ats, limit : limits]

FindRelationshipsInputs == FindRelationshipsQueries({NoTime, 1}, Limits)

AsOfInputs ==
    [type : {"AsOfQuery"},
     base_query : FindRelationshipsQueries({NoTime}, {NoLimit}) \cup FindNodesInputs,
     as_of_time : {1}]

QueryInputs == FindNodesInputs \cup FindRelationshipsInputs \cup AsOfInputs

(***************************************************************************)
(* The store called by parallel tasks.  Every operation takes              *)
(* self.store.write().await or self.store.read().await as its first        *)
(* statement and holds the guard until it returns.  tokio's RwLock is      *)
(* fair: requests are served in the order they were made, so a read        *)
(* requested after a write that is still waiting waits behind it.  No      *)
(* operation awaits anything else while it holds the guard, except query   *)
(* on an AsOfQuery over FindRelationships, which awaits self.query.        *)
(***************************************************************************)
Tasks == {"A", "B"}
NoTask == "<none>"

RwLock_new == [writer |-> NoTask, readers |-> [k \in Tasks |-> 0], queue |-> <<>>]

NoOp == [type |-> "<none>", tenant |-> "<none>", arg |-> NoId]
NoResult == [kind |-> "<none>", id |-> NoId, paths |-> <<>>]
TaskIdle == [pc |-> "idle", op |-> NoOp, result |-> NoResult, overlap |-> FALSE]

\* .write() / .read(): the request joins the queue of the lock
lock_request(l, k, mode) == [l EXCEPT !.queue = Append(@, [task |-> k, mode |-> mode])]

\* the request at the head of the queue can be served
can_grant(l) ==
    /\ l.queue # <<>>
    /\ l.writer = NoTask
    /\ Head(l.queue).mode = "write" => \A k \in Tasks : l.readers[k] = 0

\* the guards of task k are dropped
lock_release(l, k) ==
    [l EXCEPT !.writer = IF @ = k THEN NoTask ELSE @, !.readers[k] = 0]

\* a call is made; when another is in flight both are marked as overlapping
call(k, type, tenant, arg, mode) ==
    /\ tasks[k].pc = "idle"
    /\ lock' = lock_request(lock, k, mode)
    /\ tasks' = [j \in Tasks |->
                    IF j = k
                    THEN [pc |-> "wait",
                          op |-> [type |-> type, tenant |-> tenant, arg |-> arg],
                          result |-> NoResult,
                          overlap |-> \E i \in Tasks \ {k} : tasks[i].pc # "idle"]
                    ELSE IF tasks[j].pc # "idle"
                    THEN [tasks[j] EXCEPT !.overlap = TRUE]
                    ELSE tasks[j]]
    /\ UNCHANGED <<storeVars, pipelineVars, envelopeVars>>

\* upsert_node calls whose node may still be created
pending_upserts == Cardinality({k \in Tasks : tasks[k].op.type = "upsert_node"
                                              /\ tasks[k].pc # "idle"})

call_upsert_node(k, tenant, node) ==
    /\ minted.nodes + pending_upserts < MaxNodeMints
    /\ call(k, "upsert_node", tenant, node, "write")

call_delete_node(k, tenant, id) == call(k, "delete_node", tenant, id, "write")

call_query(k, tenant, q) == call(k, "query", tenant, q, "read")

\* the lock serves the head of its queue
lock_grant ==
    /\ can_grant(lock)
    /\ LET h == Head(lock.queue) IN
       /\ lock' = [writer |-> IF h.mode = "write" THEN h.task ELSE NoTask,
                   readers |-> IF h.mode = "read"
                               THEN [lock.readers EXCEPT ![h.task] = @ + 1]
                               ELSE lock.readers,
                   queue |-> Tail(lock.queue)]
       /\ tasks' = [tasks EXCEPT ![h.task].pc = IF @ = "wait" THEN "held" ELSE "held_inner"]
    /\ UNCHANGED <<storeVars, pipelineVars, envelopeVars>>

returned(k, kind, id, paths) ==
    [tasks EXCEPT ![k].pc = "idle",
                  ![k].result = [kind |-> kind, id |-> id, paths |-> paths]]

\* the body of upsert_node under the exclusive guard, to its return
upsert_node_body(k) ==
    /\ tasks[k].pc = "held"
    /\ tasks[k].op.type = "upsert_node"
    /\ LET r == upsert_node_result(store, config, tasks[k].op.tenant, tasks[k].op.arg,
                                   next_uuid) IN
       /\ store' = r.store
       /\ minted' = IF r.flag THEN [minted EXCEPT !.nodes = @ + 1] ELSE minted
       /\ tasks' = returned(k, r.kind, r.id, <<>>)
    /\ lock' = lock_release(lock, k)
    /\ UNCHANGED <<config, clock, deleted, cascaded, pipelineVars, envelopeVars>>

\* the body of delete_node under the exclusive guard, to its return
delete_node_body(k) ==
    /\ tasks[k].pc = "held"
    /\ tasks[k].op.type = "delete_node"
    /\ LET r == delete_node_result(store, tasks[k].op.tenant, tasks[k].op.arg) IN
       /\ store' = r.store
       /\ deleted' = IF r.flag THEN deleted \cup {tasks[k].op.arg} ELSE deleted
       /\ cascaded' = cascaded \cup ((DOMAIN store.edges) \ (DOMAIN r.store.edges))
       /\ tasks' = returned(k, IF r.flag THEN "Ok(true)" ELSE "Ok(false)", NoId, <<>>)
    /\ lock' = lock_release(lock, k)
    /\ UNCHANGED <<config, minted, clock, pipelineVars, envelopeVars>>

\* lines 504-515: the arm of the match that awaits self.query
reenters(q) == q.type = "AsOfQuery" /\ q.base_query.type = "FindRelationships"

\* the body of query under a shared guard, for the arms that return a result
query_body(k) ==
    /\ tasks[k].pc = "held"
    /\ tasks[k].op.type = "query"
    /\ ~reenters(tasks[k].op.arg)
    /\ LET r == query(store, tasks[k].op.tenant, tasks[k].op.arg) IN
       tasks' = returned(k, r[1], NoId, r[2])
    /\ lock' = lock_release(lock, k)
    /\ UNCHANGED <<storeVars, pipelineVars, envelopeVars>>

\* the outer call keeps its guard and requests the lock again in self.query
query_reenter(k) ==
    /\ tasks[k].pc = "held"
    /\ tasks[k].op.type = "query"
    /\ reenters(tasks[k].op.arg)
    /\ lock' = lock_request(lock, k, "read")
    /\ tasks' = [tasks EXCEPT ![k].pc = "wait_inner"]
    /\ UNCHANGED <<storeVars, pipelineVars, envelopeVars>>

\* the inner call runs FindRelationships and returns, then the outer returns
query_inner_body(k) ==
    /\ tasks[k].pc = "held_inner"
    /\ LET q == tasks[k].op.arg
           r == query(store, tasks[k].op.tenant, as_of_rewrite(q.base_query, q.as_of_time))
       IN  tasks' = returned(k, r[1], NoId, r[2])
    /\ lock' = lock_release(lock, k)
    /\ UNCHANGED <<storeVars, pipelineVars, envelopeVars>>

\* what the tasks ask
LockQueries ==
    {[type |-> "FindNodes", labels |-> <<>>, properties |-> {}, limit |-> NoLimit],
     [type |-> "AsOfQuery",
      base_query |-> [type |-> "FindRelationships", from_node_id |-> NoId,
                      to_node_id |-> NoId, relationship_types |-> <<>>,
                      valid_at |-> NoTime, limit |-> NoLimit],
      as_of_time |-> 1]}

StoreInit ==
    /\ store = MemoryStore_new
    /\ config \in Configs
    /\ minted = [nodes |-> 0, edges |-> 0]
    /\ clock = 0
    /\ deleted = {}
    /\ cascaded = {}
    /\ lock = RwLock_new
    /\ tasks = [k \in Tasks |-> TaskIdle]

(***************************************************************************)
(* PipelineRunner (core/pipeline.rs).  A plugin is modelled by what its    *)
(* call does: the built-in plugins, the tests' HaltPlugin, a plugin that   *)
(* returns HaltWithError and one that writes ctx.error and returns         *)
(* Continue.  TestPlugin behaves as RequestLogging does.                   *)
(***************************************************************************)
MaxPlugins == 3

Stages == <<"PreOperation", "Operation", "PostOperation">>
StageSet == {Stages[i] : i \in 1..Len(Stages)}
PluginKinds == {"RequestLogging", "TenantValidation", "AuditTrail", "Halt", "HaltWithError",
                "SetsError"}
Paths == {"/test", "/graph/nodes", "/llm/extract"}
NoTenant == "<none>"
NoError == "<none>"

\* RequestContext::new, then the tenant the routing sets
RequestContext_new(path, tenant_id) ==
    [path |-> path, tenant_id |-> tenant_id, error |-> NoError, audit_logged |-> FALSE]

\* ctx.path.contains("/graph/") || ctx.path.contains("/llm/")
path_requires_tenant(path) == path \in {"/graph/nodes", "/llm/extract"}

\* plugins of which the tenant validation halts without noting an error
plugin_call_tenant_halt_only(kind, c) ==
    CASE kind = "RequestLogging" -> <<"Continue", c>>
      [] kind = "AuditTrail" -> <<"Continue", [c EXCEPT !.audit_logged = TRUE]>>
      [] kind = "TenantValidation" ->
            IF path_requires_tenant(c.path) /\ c.tenant_id = NoTenant
            THEN <<"Halt", c>>
            ELSE <<"Continue", c>>
      [] kind = "Halt" -> <<"Halt", c>>
      [] kind = "HaltWithError" -> <<"HaltWithError", c>>
      [] kind = "SetsError" -> <<"Continue", [c EXCEPT !.error = "noted by a plugin"]>>

\* PipelinePlugin::call: <<outcome, the context it leaves>>
plugin_call(kind, c) ==
    CASE kind = "RequestLogging" -> <<"Continue", c>>
      [] kind = "AuditTrail" -> <<"Continue", [c EXCEPT !.audit_logged = TRUE]>>
      [] kind = "TenantValidation" ->
            IF path_requires_tenant(c.path) /\ c.tenant_id = NoTenant
            THEN <<"Halt", [c EXCEPT !.error = "Tenant ID is required for this operation"]>>
            ELSE <<"Continue", c>>
      [] kind = "Halt" -> <<"Halt", c>>
      [] kind = "HaltWithError" -> <<"HaltWithError", c>>
      \* call takes &mut RequestContext and error is a public field: an
      \* implementation may note an error on the context and return Continue
      [] kind = "SetsError" -> <<"Continue", [c EXCEPT !.error = "noted by a plugin"]>>

registered == Len(plugins["PreOperation"]) + Len(plugins["Operation"])
                + Len(plugins["PostOperation"])

register_plugin(st, plugin) ==
    /\ pc # "running"
    /\ registered < MaxPlugins
    /\ plugins' = [plugins EXCEPT ![st] = Append(@, plugin)]
    \* a request that has returned was run with the plugins of before
    /\ pc' = "idle"
    \* lines 54-56: the plugin is pushed; neither here nor elsewhere is its init called
    /\ UNCHANGED <<stage, index, broke, ctx, calls, inits, result, handlerVars,
                   storeVars, envelopeVars, lockVars>>

\* execute is entered: the pre-operation stage is next
execute(c) ==
    /\ pc # "running"
    /\ pc' = "running"
    /\ stage' = "PreOperation"
    /\ index' = 1
    /\ broke' = FALSE
    /\ ctx' = c
    /\ calls' = <<>>
    /\ result' = [kind |-> "<none>", ctx |-> c]
    /\ UNCHANGED <<plugins, inits, handlerVars, storeVars, envelopeVars, lockVars>>

\* a match that leaves the loop on HaltWithError without noting the error
after_outcome_error_dropped(outcome, c) ==
    CASE outcome = "Continue" -> [broke |-> FALSE, ctx |-> c]
      [] outcome = "Halt" -> [broke |-> TRUE, ctx |-> c]
      [] outcome = "HaltWithError" -> [broke |-> TRUE, ctx |-> c]

\* a match in which Halt does not leave the loop
after_outcome_halt_goes_on(outcome, c) ==
    CASE outcome = "Continue" -> [broke |-> FALSE, ctx |-> c]
      [] outcome = "Halt" -> [broke |-> FALSE, ctx |-> c]
      [] outcome = "HaltWithError" -> [broke |-> TRUE, ctx |-> [c EXCEPT !.error = "plugin error"]]

\* what the match on the plugin's outcome does to the loop and the context
after_outcome(outcome, c) ==
    CASE outcome = "Continue" -> [broke |-> FALSE, ctx |-> c]
      [] outcome = "Halt" -> [broke |-> TRUE, ctx |-> c]
      [] outcome = "HaltWithError" -> [broke |-> TRUE, ctx |-> [c EXCEPT !.error = "plugin error"]]

\* one turn of execute_stage's loop: the next plugin of the stage is called
execute_stage_call ==
    /\ pc = "running"
    /\ ~broke
    /\ index <= Len(plugins[stage])
    /\ LET out == plugin_call(plugins[stage][index], ctx)
           nxt == after_outcome(out[1], out[2])
       IN  /\ calls' = Append(calls, [stage |-> stage, index |-> index, outcome |-> out[1]])
           /\ ctx' = nxt.ctx
           /\ broke' = nxt.broke
           /\ index' = IF nxt.broke THEN index ELSE index + 1
    /\ UNCHANGED <<plugins, pc, stage, inits, result, handlerVars, storeVars, envelopeVars, lockVars>>

\* an order of the stages that passes over the operation stage
next_stage_skips_operation(st) == "PostOperation"

next_stage(st) == IF st = "PreOperation" THEN "Operation" ELSE "PostOperation"

\* execute_stage returns Ok(ctx); execute tests ctx.error and goes on to the
\* next stage or returns
execute_stage_return ==
    /\ pc = "running"
    /\ broke \/ index > Len(plugins[stage])
    /\ IF stage = "PostOperation" \/ ctx.error # NoError
       THEN /\ pc' = "returned"
            /\ result' = [kind |-> "Ok", ctx |-> ctx]
            /\ UNCHANGED <<stage, index, broke>>
       ELSE /\ stage' = next_stage(stage)
            /\ index' = 1
            /\ broke' = FALSE
            /\ UNCHANGED <<pc, result>>
    /\ UNCHANGED <<plugins, ctx, calls, inits, handlerVars, storeVars, envelopeVars, lockVars>>

(***************************************************************************)
(* The node write of a wire adapter (fastapi-bridge handlers/graph.rs      *)
(* upsert_node, uds service.rs handle_upsert_node, grpc lib.rs             *)
(* upsert_node: the three are the same steps).  core_service.upsert_node   *)
(* is the store's upsert_node: GraphService has no implementation of its   *)
(* own in the repository.                                                  *)
(***************************************************************************)
NoRequest == [tenant |-> NoTenant, node |-> NoNode]
NotInvoked == -1

\* the context is built with the tenant of the request and execute is entered
handle_upsert_node(tenant, node) ==
    /\ handler # "pipeline"
    /\ pc # "running"
    /\ minted.nodes < MaxNodeMints
    /\ handler' = "pipeline"
    /\ request' = [tenant |-> tenant, node |-> node]
    /\ op_at' = NotInvoked
    /\ pc' = "running"
    /\ stage' = "PreOperation"
    /\ index' = 1
    /\ broke' = FALSE
    /\ ctx' = RequestContext_new("/graph/nodes", tenant)
    /\ calls' = <<>>
    /\ result' = [kind |-> "<none>", ctx |-> RequestContext_new("/graph/nodes", tenant)]
    /\ UNCHANGED <<plugins, inits, storeVars, envelopeVars, lockVars>>

\* execute has returned: an error on the context is answered with 400,
\* otherwise the core operation is called and its result answered
handle_upsert_node_core ==
    /\ handler = "pipeline"
    /\ pc = "returned"
    /\ IF result.ctx.error # NoError
       THEN /\ handler' = "rejected"
            /\ UNCHANGED <<op_at, storeVars>>
       ELSE LET r == upsert_node_result(store, config, request.tenant, request.node,
                                        next_uuid) IN
            /\ handler' = "responded"
            /\ op_at' = Len(calls)
            /\ store' = r.store
            /\ minted' = IF r.flag THEN [minted EXCEPT !.nodes = @ + 1] ELSE minted
            /\ UNCHANGED <<config, clock, deleted, cascaded>>
    /\ UNCHANGED <<plugins, pc, stage, index, broke, ctx, calls, inits, result, request,
                   envelopeVars, lockVars>>

\* the pipeline of UdsAdapter::new, GrpcAdapter::new and the bridge, and two
\* pipelines handed to new_with_pipeline
HandlerPipelines ==
    {[PreOperation |-> <<"RequestLogging", "TenantValidation">>, Operation |-> <<>>,
      PostOperation |-> <<"AuditTrail">>],
     [PreOperation |-> <<"HaltWithError">>, Operation |-> <<>>,
      PostOperation |-> <<"AuditTrail">>],
     [PreOperation |-> <<"TenantValidation">>, Operation |-> <<"RequestLogging">>,
      PostOperation |-> <<>>]}

PipelineInit ==
    /\ plugins = [st \in StageSet |-> <<>>]
    /\ pc = "idle"
    /\ stage = "PreOperation"
    /\ index = 1
    /\ broke = FALSE
    /\ ctx = RequestContext_new("/test", NoTenant)
    /\ calls = <<>>
    /\ inits = 0
    /\ result = [kind |-> "<none>", ctx |-> RequestContext_new("/test", NoTenant)]
    /\ handler = "idle"
    /\ request = NoRequest
    /\ op_at = NotInvoked

(***************************************************************************)
(* validate_extraction_envelope of the OpenAI, Anthropic and Gemini        *)
(* connectors (the three are the same code).                               *)
(***************************************************************************)
MaxEnvelopeNodes == 3
MaxRelations == 2
EnvelopeAliases == {"a", "b", "c"}

SeqsUpTo(S, n) == UNION {[1..k -> S] : k \in 0..n}

Envelopes ==
    [nodes : SeqsUpTo([id_alias : EnvelopeAliases], MaxEnvelopeNodes),
     relations : SeqsUpTo([from_id_alias : EnvelopeAliases, to_id_alias : EnvelopeAliases],
                          MaxRelations)]

\* the first loop: HashSet::insert of each node's id_alias, in order
RECURSIVE check_node_aliases(_, _, _)
check_node_aliases(nodes, i, node_aliases) ==
    IF i > Len(nodes) THEN [duplicate |-> FALSE, node_aliases |-> node_aliases]
    ELSE IF nodes[i].id_alias \in node_aliases
         THEN [duplicate |-> TRUE, node_aliases |-> node_aliases]
         ELSE check_node_aliases(nodes, i + 1, node_aliases \cup {nodes[i].id_alias})

\* the second loop: each relation's two aliases against the set
RECURSIVE check_relations(_, _, _)
check_relations(relations, i, node_aliases) ==
    IF i > Len(relations) THEN "Ok"
    ELSE IF relations[i].from_id_alias \notin node_aliases
         THEN "Relation references unknown from_id_alias"
         ELSE IF relations[i].to_id_alias \notin node_aliases
              THEN "Relation references unknown to_id_alias"
              ELSE check_relations(relations, i + 1, node_aliases)

\* a validation that tests the relations' from_id_alias only
validate_extraction_envelope_from_only(env) ==
    LET first == check_node_aliases(env.nodes, 1, {}) IN
    IF first.duplicate
    THEN [kind |-> "SchemaValidationError", message |-> "Duplicate node id_alias"]
    ELSE IF \E i \in 1..Len(env.relations) :
                env.relations[i].from_id_alias \notin first.node_aliases
         THEN [kind |-> "SchemaValidationError",
               message |-> "Relation references unknown from_id_alias"]
         ELSE [kind |-> "Ok", message |-> ""]

validate_extraction_envelope(env) ==
    LET first == check_node_aliases(env.nodes, 1, {}) IN
    IF first.duplicate
    THEN [kind |-> "SchemaValidationError", message |-> "Duplicate node id_alias"]
    ELSE LET second == check_relations(env.relations, 1, first.node_aliases) IN
         IF second = "Ok"
         THEN [kind |-> "Ok", message |-> ""]
         ELSE [kind |-> "SchemaValidationError", message |-> second]

NotValidated == [kind |-> "<none>", message |-> ""]

\* parse_extraction_response hands the deserialised envelope to the validation
validate ==
    /\ validation = NotValidated
    /\ validation' = validate_extraction_envelope(envelope)
    /\ UNCHANGED <<envelope, storeVars, pipelineVars, lockVars>>

(***************************************************************************)
(* The specifications: the store, the pipeline runner and the envelope     *)
(* validation each run on their own, the other two at rest.                *)
(***************************************************************************)
StoreAtRest ==
    /\ store = MemoryStore_new
    /\ config = [max_nodes |-> NoLimit, max_edges |-> NoLimit]
    /\ minted = [nodes |-> 0, edges |-> 0]
    /\ clock = 0
    /\ deleted = {}
    /\ cascaded = {}
    /\ lock = RwLock_new
    /\ tasks = [k \in Tasks |-> TaskIdle]

EnvelopeAtRest ==
    /\ envelope = [nodes |-> <<>>, relations |-> <<>>]
    /\ validation = NotValidated

Init == StoreInit /\ PipelineInit /\ EnvelopeAtRest

Next ==
    \/ \E t \in Tenants, n \in NodeInputs : upsert_node(t, n)
    \/ \E t \in Tenants, e \in EdgeInputs : upsert_edge(t, e, clock)
    \/ \E t \in Tenants, id \in Ids : delete_node(t, id)
    \/ \E t \in Tenants, id \in Ids : delete_edge(t, id)

Spec == Init /\ [][Next]_vars

InitPipeline == StoreAtRest /\ PipelineInit /\ EnvelopeAtRest

NextPipeline ==
    \/ \E st \in StageSet, k \in PluginKinds : register_plugin(st, k)
    \/ \E path \in Paths, t \in {NoTenant, "T1"} : execute(RequestContext_new(path, t))
    \/ execute_stage_call
    \/ execute_stage_return

SpecPipeline == InitPipeline /\ [][NextPipeline]_vars

\* the envelope is any the connector can have deserialised
InitEnvelope ==
    /\ StoreAtRest
    /\ PipelineInit
    /\ envelope \in Envelopes
    /\ validation = NotValidated

NextEnvelope == validate

SpecEnvelope == InitEnvelope /\ [][NextEnvelope]_vars

(***************************************************************************)
(* The store with a clock that moves: Utc::now() returns any time not      *)
(* before the last one, and the caller sets transaction_start_time to any  *)
(* time (TimeEdge::new(..).with_transaction_start_time(..)).               *)
(***************************************************************************)
TimedEdgeInputs ==
    {[from_node_id |-> f, to_node_id |-> t, kind |-> "KNOWS",
      valid_from |-> 0, valid_to |-> NoTime,
      transaction_start_time |-> ts, transaction_end_time |-> NoTime,
      props |-> {}] : f \in Ids, t \in Ids, ts \in {0, MaxTime}}

InitTime == StoreAtRest /\ PipelineInit /\ EnvelopeAtRest

NextTime ==
    \/ \E t \in Tenants, n \in NodeInputs : upsert_node(t, n)
    \/ \E t \in Tenants, e \in TimedEdgeInputs, now \in Times : upsert_edge(t, e, now)
    \/ \E t \in Tenants, id \in Ids : delete_node(t, id)
    \/ \E t \in Tenants, id \in Ids : delete_edge(t, id)

SpecTime == InitTime /\ [][NextTime]_vars

(***************************************************************************)
(* The store under parallel tasks.  In SpecLockFair the runtime polls      *)
(* every task that can go on and the lock serves a request that can be     *)
(* served; that a task makes a call is never required.  The tasks work    *)
(* for one tenant.                                                         *)
(***************************************************************************)
InitLock == StoreInit /\ PipelineInit /\ EnvelopeAtRest

lock_steps ==
    \/ lock_grant
    \/ \E k \in Tasks : upsert_node_body(k)
    \/ \E k \in Tasks : delete_node_body(k)
    \/ \E k \in Tasks : query_body(k)
    \/ \E k \in Tasks : query_reenter(k)
    \/ \E k \in Tasks : query_inner_body(k)

NextLock ==
    \/ \E k \in Tasks, n \in NodeInputs : call_upsert_node(k, "T1", n)
    \/ \E k \in Tasks, id \in 1..MaxNodeMints : call_delete_node(k, "T1", id)
    \/ \E k \in Tasks, q \in LockQueries : call_query(k, "T1", q)
    \/ lock_grant
    \/ \E k \in Tasks : upsert_node_body(k)
    \/ \E k \in Tasks : delete_node_body(k)
    \/ \E k \in Tasks : query_body(k)
    \/ \E k \in Tasks : query_reenter(k)
    \/ \E k \in Tasks : query_inner_body(k)

SpecLock == InitLock /\ [][NextLock]_vars

SpecLockFair == SpecLock /\ WF_vars(lock_steps)

(***************************************************************************)
(* The node writes of a wire adapter: the adapter is built with its        *)
(* pipeline, then handles one write after the other.                       *)
(***************************************************************************)
InitHandler ==
    /\ StoreAtRest
    /\ EnvelopeAtRest
    /\ plugins \in HandlerPipelines
    /\ pc = "idle"
    /\ stage = "PreOperation"
    /\ index = 1
    /\ broke = FALSE
    /\ ctx = RequestContext_new("/test", NoTenant)
    /\ calls = <<>>
    /\ inits = 0
    /\ result = [kind |-> "<none>", ctx |-> RequestContext_new("/test", NoTenant)]
    /\ handler = "idle"
    /\ request = NoRequest
    /\ op_at = NotInvoked

NextHandler ==
    \/ \E t \in Tenants, n \in NodeInputs : handle_upsert_node(t, n)
    \/ execute_stage_call
    \/ execute_stage_return
    \/ handle_upsert_node_core

SpecHandler == InitHandler /\ [][NextHandler]_vars

(***************************************************************************)
(* Tenant isolation of the reads.                                          *)
(***************************************************************************)
\* every node and relationship of the path is a stored record of `tenant`
PathOwnedBy(path, tenant) ==
    /\ \A i \in 1..Len(path.nodes) :
          /\ path.nodes[i].id \in DOMAIN store.nodes
          /\ store.nodes[path.nodes[i].id].tenant_id = tenant
    /\ \A i \in 1..Len(path.relationships) :
          /\ path.relationships[i].id \in DOMAIN store.edges
          /\ store.edges[path.relationships[i].id].tenant_id = tenant

\* C1: a node that get_node shows to tenant A is shown to no other tenant B,
\* whatever id B presents.
C1_GetNodeIsolation ==
    \A a \in Tenants, b \in Tenants, x \in Ids :
        (a # b /\ get_node(store, a, x) # NoNode) => get_node(store, b, x) = NoNode

\* both tenants hold a node under the same alias, each visible to its owner
C1_Witness ==
    \E x \in Ids, y \in Ids :
        /\ get_node(store, "T1", x) # NoNode
        /\ get_node(store, "T2", y) # NoNode
        /\ get_node(store, "T1", x).id_alias = "alice"
        /\ get_node(store, "T2", y).id_alias = "alice"

\* C2: every path that query returns to a tenant for a FindNodes, a
\* FindRelationships or an AsOfQuery holds only that tenant's nodes and
\* relationships, also when from_node_id / to_node_id name another tenant's node.
C2_QueryIsolation ==
    \A t \in Tenants, q \in QueryInputs :
        LET paths == query(store, t, q)[2] IN
        \A i \in 1..Len(paths) : PathOwnedBy(paths[i], t)

FromQuery(x) ==
    [type |-> "FindRelationships", from_node_id |-> x, to_node_id |-> NoId,
     relationship_types |-> <<>>, valid_at |-> NoTime, limit |-> NoLimit]

\* T1 owns node x with an edge leaving it; T2, which owns a node too, asks for
\* the edges from x and gets nothing, while T1 gets the edge
C2_Witness ==
    \E x \in Ids, y \in Ids :
        /\ node_exists_in(store, "T1", x)
        /\ node_exists_in(store, "T2", y)
        /\ query(store, "T1", FromQuery(x))[2] # <<>>
        /\ query(store, "T2", FromQuery(x))[2] = <<>>

(***************************************************************************)
(* upsert_node through an alias, upsert_edge's endpoint check.             *)
(***************************************************************************)
\* C3: once (tenant, alias) is indexed by a first upsert, a second upsert of a
\* node with that alias returns the same id, adds no node, and get_node then
\* returns the second call's label and props under the same alias.
C3_AliasIdempotence ==
    \A t \in Tenants, n \in NodeInputs :
        (n.id_alias # NoAlias /\ store.nodes_by_alias[<<t, n.id_alias>>] # NoId) =>
            LET first_id == store.nodes_by_alias[<<t, n.id_alias>>]
                r == upsert_node_result(store, config, t, n, next_uuid)
            IN  /\ r.kind = "Ok"
                /\ r.id = first_id
                /\ DOMAIN r.store.nodes = DOMAIN store.nodes
                /\ get_node(r.store, t, first_id) = n

bad_endpoint(t, e) ==
    ~node_exists_in(store, t, e.from_node_id) \/ ~node_exists_in(store, t, e.to_node_id)

\* C4 as claimed: upsert_edge succeeds only if both endpoints are nodes of the
\* tenant; otherwise it fails with NodeNotFound and leaves the store unchanged.
C4_EndpointCheck ==
    \A t \in Tenants, e \in EdgeInputs :
        LET r == upsert_edge_result(store, config, t, e, clock, next_uuid) IN
        /\ r.kind = "Ok" => ~bad_endpoint(t, e)
        /\ bad_endpoint(t, e) => (r.kind = "NodeNotFound" /\ r.store = store)

\* C4 as amended: upsert_edge succeeds only if both endpoints are nodes of the
\* tenant; with a missing or foreign endpoint it fails and leaves the store
\* unchanged, with ConstraintViolation when max_edges is already reached (the
\* cap is tested first) and with NodeNotFound otherwise.
C4_EndpointCheckAmended ==
    \A t \in Tenants, e \in EdgeInputs :
        LET r == upsert_edge_result(store, config, t, e, clock, next_uuid)
            capped == config.max_edges # NoLimit
                        /\ Cardinality(DOMAIN store.edges) >= config.max_edges
        IN  /\ r.kind = "Ok" => ~bad_endpoint(t, e)
            /\ bad_endpoint(t, e) =>
                  /\ r.kind = IF capped THEN "ConstraintViolation" ELSE "NodeNotFound"
                  /\ r.store = store

\* an edge is stored, and an edge from a T1 node to a T2 node is refused with
\* NodeNotFound for either tenant
C4_Witness ==
    /\ DOMAIN store.edges # {}
    /\ \E e \in EdgeInputs :
          /\ node_exists_in(store, "T1", e.from_node_id)
          /\ node_exists_in(store, "T2", e.to_node_id)
          /\ upsert_edge_result(store, config, "T1", e, clock, next_uuid).kind = "NodeNotFound"
          /\ upsert_edge_result(store, config, "T2", e, clock, next_uuid).kind = "NodeNotFound"

(***************************************************************************)
(* delete_node and its cascade.                                            *)
(***************************************************************************)
PathTouches(path, x) ==
    \/ \E i \in 1..Len(path.nodes) : path.nodes[i].id = x
    \/ \E i \in 1..Len(path.relationships) :
          \/ path.relationships[i].start_node_id = x
          \/ path.relationships[i].end_node_id = x
          \/ path.relationships[i].id \in cascaded

\* C5: once delete_node(t, x) has returned true, get_node(t, x) returns nothing
\* and no query result, from whichever candidate index, holds x or an edge that
\* had x as an endpoint.
C5_DeleteCascade ==
    \A x \in deleted :
        /\ \A t \in Tenants : get_node(store, t, x) = NoNode
        /\ \A t \in Tenants, q \in QueryInputs :
              LET paths == query(store, t, q)[2] IN
              \A i \in 1..Len(paths) : ~PathTouches(paths[i], x)

\* a node was deleted with an edge to a node that is still there and that
\* still has an edge of its own
C5_Witness ==
    /\ deleted # {}
    /\ cascaded # {}
    /\ DOMAIN store.edges # {}

(***************************************************************************)
(* The valid-time predicate and the as-of rewrite.                         *)
(***************************************************************************)
Includes(paths, edge_id) ==
    \E i \in 1..Len(paths) : paths[i].relationships[1].id = edge_id

ValidAtQuery(p) ==
    [type |-> "FindRelationships", from_node_id |-> NoId, to_node_id |-> NoId,
     relationship_types |-> <<>>, valid_at |-> p, limit |-> NoLimit]

\* C6: FindRelationships with valid_at = p and no limit includes an edge that
\* passes the other filters iff valid_from <= p and (valid_to is absent or
\* p < valid_to).
C6_TemporalPredicate ==
    \A id \in DOMAIN store.edges, p \in Times,
       q \in FindRelationshipsQueries(Times, {NoLimit}) :
        LET se == store.edges[id] IN
        (edge_passes(se, se.tenant_id, [q EXCEPT !.valid_at = NoTime])) =>
            (Includes(query(store, se.tenant_id, [q EXCEPT !.valid_at = p])[2], id)
                <=> (/\ se.edge.valid_from <= p
                     /\ (se.edge.valid_to = NoTime \/ p < se.edge.valid_to)))

\* an edge valid over [1, 2) is found at p = 1 and not at p = 0 or p = 2
C6_Witness ==
    \E id \in DOMAIN store.edges :
        LET se == store.edges[id] IN
        /\ se.edge.valid_from = 1 /\ se.edge.valid_to = 2
        /\ Includes(query(store, se.tenant_id, ValidAtQuery(1))[2], id)
        /\ ~Includes(query(store, se.tenant_id, ValidAtQuery(0))[2], id)
        /\ ~Includes(query(store, se.tenant_id, ValidAtQuery(2))[2], id)

AsOf(base, t) == [type |-> "AsOfQuery", base_query |-> base, as_of_time |-> t]

\* C7: AsOfQuery{FindRelationships{from, to, types, valid_at = anything, limit},
\* as_of_time = t} returns what FindRelationships{from, to, types, valid_at = t,
\* limit} returns.
C7_AsOfRewrite ==
    \A t \in Tenants, base \in FindRelationshipsQueries({NoTime, 1}, Limits), p \in Times :
        query(store, t, AsOf(base, p)) = query(store, t, [base EXCEPT !.valid_at = p])

\* the base's own valid_at = 1 finds an edge that as_of_time = 1 finds too and
\* that as_of_time = 0 and as_of_time = 2 do not
C7_Witness ==
    \E t \in Tenants :
        /\ query(store, t, ValidAtQuery(1))[2] # <<>>
        /\ query(store, t, AsOf(ValidAtQuery(1), 2))[2] = <<>>
        /\ query(store, t, AsOf(ValidAtQuery(1), 1))[2] # <<>>
        /\ query(store, t, AsOf(ValidAtQuery(1), 0))[2] = <<>>

(***************************************************************************)
(* The pipeline runner's handling of Halt.                                 *)
(***************************************************************************)
HaltedIn(st) ==
    \E i \in 1..Len(calls) : calls[i].stage = st /\ calls[i].outcome = "Halt"

\* C8: if a pre-operation plugin returns Halt for a request, no operation-stage
\* plugin and no post-operation-stage plugin is called for that request.
C8_PreHaltSkipsLaterStages ==
    HaltedIn("PreOperation") =>
        \A j \in 1..Len(calls) : calls[j].stage = "PreOperation"

\* C9: within one stage, once a plugin has returned Halt no plugin registered
\* after it in that stage is called for that request, and execute returns Ok
\* with the context as the response.
C9_HaltWithinStage ==
    /\ \A i \in 1..Len(calls), j \in 1..Len(calls) :
          (i < j /\ calls[i].outcome = "Halt") => calls[j].stage # calls[i].stage
    /\ (pc = "returned" /\ \E st \in StageSet : HaltedIn(st)) =>
          result = [kind |-> "Ok", ctx |-> ctx]

\* execute has returned from a request whose first pre-operation plugin
\* returned Halt while a second plugin was registered behind it
C9_Witness ==
    /\ pc = "returned"
    /\ Len(plugins["PreOperation"]) >= 2
    /\ calls # <<>>
    /\ calls[1] = [stage |-> "PreOperation", index |-> 1, outcome |-> "Halt"]
    /\ result.kind = "Ok"

(***************************************************************************)
(* Envelope validation.                                                    *)
(***************************************************************************)
HasDuplicateAlias(env) ==
    \E i \in 1..Len(env.nodes), j \in 1..Len(env.nodes) :
        i # j /\ env.nodes[i].id_alias = env.nodes[j].id_alias

HasDanglingRelation(env) ==
    LET declared == {env.nodes[i].id_alias : i \in 1..Len(env.nodes)} IN
    \E i \in 1..Len(env.relations) :
        \/ env.relations[i].from_id_alias \notin declared
        \/ env.relations[i].to_id_alias \notin declared

\* C10: an envelope in which two nodes share an id_alias, or in which some
\* relation's from_id_alias or to_id_alias is not a node's id_alias, is rejected
\* with SchemaValidationError.
C10_EnvelopeValidation ==
    (validation # NotValidated
        /\ (HasDuplicateAlias(envelope) \/ HasDanglingRelation(envelope))) =>
            validation.kind = "SchemaValidationError"

\* an envelope of distinct nodes whose second relation alone dangles, at its
\* to_id_alias, has been rejected
C10_Witness ==
    /\ validation.kind = "SchemaValidationError"
    /\ ~HasDuplicateAlias(envelope)
    /\ Len(envelope.nodes) = 2
    /\ Len(envelope.relations) = 2
    /\ envelope.relations[1].to_id_alias = envelope.nodes[2].id_alias
    /\ envelope.relations[2].from_id_alias = envelope.nodes[1].id_alias
    /\ envelope.relations[2].to_id_alias
          \notin {envelope.nodes[i].id_alias : i \in 1..Len(envelope.nodes)}

(***************************************************************************)
(* The indices against the primary maps.                                   *)
(***************************************************************************)
\* the bucket holds each id of `members`, once, and nothing else
BucketIs(bucket, members) ==
    /\ Range(bucket) = members
    /\ Len(bucket) = Cardinality(members)

\* C11: after any sequence of upsert_node, upsert_edge, delete_node and
\* delete_edge the nodes-by-tenant, edges-by-tenant, nodes-by-alias,
\* edges-from-node and edges-to-node indices agree with the primary maps: each
\* stored record is once in every bucket it belongs to, and no bucket holds the
\* id of a record that is not in the primary map.
C11_IndexConsistency ==
    /\ \A t \in Tenants :
          /\ BucketIs(store.nodes_by_tenant[t],
                      {x \in DOMAIN store.nodes : store.nodes[x].tenant_id = t})
          /\ BucketIs(store.edges_by_tenant[t],
                      {x \in DOMAIN store.edges : store.edges[x].tenant_id = t})
    /\ \A t \in Tenants, a \in Aliases :
          LET x == store.nodes_by_alias[<<t, a>>]
              holders == {y \in DOMAIN store.nodes :
                             /\ store.nodes[y].tenant_id = t
                             /\ store.nodes[y].node.id_alias = a}
          IN  IF x = NoId THEN holders = {} ELSE holders = {x}
    /\ \A n \in Ids :
          /\ BucketIs(store.edges_from_node[n],
                      {x \in DOMAIN store.edges : store.edges[x].edge.from_node_id = n})
          /\ BucketIs(store.edges_to_node[n],
                      {x \in DOMAIN store.edges : store.edges[x].edge.to_node_id = n})

\* a node was deleted and took an edge with it, while a node that is still
\* stored keeps an incoming edge in its adjacency bucket
C11_Witness ==
    /\ deleted # {}
    /\ cascaded # {}
    /\ \E n \in DOMAIN store.nodes : store.edges_to_node[n] # <<>>

LabelQuery(label) ==
    [type |-> "FindNodes", labels |-> <<label>>, properties |-> {}, limit |-> NoLimit]

\* C12: in every reachable state the nodes-by-label bucket of (t, L) holds
\* exactly the ids of t's stored nodes whose current label is L, and
\* FindNodes{labels = [L]} returns exactly those nodes, also after an upsert
\* through an existing alias has changed the label and after that node's deletion.
C12_LabelIndex ==
    \A t \in Tenants, l \in Labels :
        LET members == {x \in DOMAIN store.nodes :
                           /\ store.nodes[x].tenant_id = t
                           /\ store.nodes[x].node.label = l}
            paths == query(store, t, LabelQuery(l))[2]
        IN  /\ BucketIs(store.nodes_by_label[<<t, l>>], members)
            /\ {paths[i].nodes[1].id : i \in 1..Len(paths)} = members

(***************************************************************************)
(* Edges and their endpoints, the caps, the deletes that find nothing.     *)
(***************************************************************************)
\* C13: in every reachable state both endpoints of every stored edge are in the
\* node map and have the edge's tenant, whatever was upserted and deleted.
C13_EdgeEndpointsExist ==
    \A x \in DOMAIN store.edges :
        LET se == store.edges[x] IN
        /\ node_exists_in(store, se.tenant_id, se.edge.from_node_id)
        /\ node_exists_in(store, se.tenant_id, se.edge.to_node_id)

\* a node was deleted together with an edge, and a stored edge still joins a
\* stored node of its tenant to itself
C13_Witness ==
    /\ deleted # {}
    /\ cascaded # {}
    /\ \E x \in DOMAIN store.edges :
          /\ store.edges[x].edge.from_node_id = store.edges[x].edge.to_node_id
          /\ store.edges[x].edge.from_node_id \notin deleted
          /\ node_exists_in(store, store.edges[x].tenant_id, store.edges[x].edge.to_node_id)

\* the upsert of `node` would add a node: it has no alias, or one not indexed
would_create(t, node) ==
    node.id_alias = NoAlias \/ store.nodes_by_alias[<<t, node.id_alias>>] = NoId

\* C14: with max_nodes (max_edges) configured the number of stored nodes
\* (edges) never exceeds it, and an upsert that would add a record beyond the
\* cap fails with ConstraintViolation and leaves the store unchanged.
C14_Caps ==
    /\ config.max_nodes # NoLimit =>
          /\ Cardinality(DOMAIN store.nodes) <= config.max_nodes
          /\ \A t \in Tenants, n \in NodeInputs :
                (Cardinality(DOMAIN store.nodes) >= config.max_nodes /\ would_create(t, n)) =>
                    LET r == upsert_node_result(store, config, t, n, next_uuid) IN
                    r.kind = "ConstraintViolation" /\ r.store = store
    /\ config.max_edges # NoLimit =>
          /\ Cardinality(DOMAIN store.edges) <= config.max_edges
          /\ \A t \in Tenants, e \in EdgeInputs :
                Cardinality(DOMAIN store.edges) >= config.max_edges =>
                    LET r == upsert_edge_result(store, config, t, e, clock, next_uuid) IN
                    r.kind = "ConstraintViolation" /\ r.store = store

\* both caps are set and reached, after a node had been deleted and another
\* one stored in its place
C14_Witness ==
    /\ config.max_nodes = CapNodes
    /\ config.max_edges = CapEdges
    /\ Cardinality(DOMAIN store.nodes) = CapNodes
    /\ Cardinality(DOMAIN store.edges) = CapEdges
    /\ deleted # {}

\* C15: delete_node(t, id) and delete_edge(t, id) with an id that is absent or
\* that belongs to another tenant return false and leave both primary maps and
\* all six indices unchanged.
C15_FailedDeleteUnchanged ==
    \A t \in Tenants, id \in Ids :
        /\ ~node_exists_in(store, t, id) =>
              LET r == delete_node_result(store, t, id) IN
              r.kind = "Ok" /\ ~r.flag /\ r.store = store
        /\ ~(id \in DOMAIN store.edges /\ store.edges[id].tenant_id = t) =>
              LET r == delete_edge_result(store, t, id) IN
              r.kind = "Ok" /\ ~r.flag /\ r.store = store

\* T1 owns a node with an edge leaving it; T2, which owns a node too, is
\* refused the deletion of both, and T1 still finds the edge
C15_Witness ==
    \E x \in Ids, y \in Ids, e \in DOMAIN store.edges :
        /\ node_exists_in(store, "T1", x)
        /\ node_exists_in(store, "T2", y)
        /\ store.edges[e].edge.from_node_id = x
        /\ ~delete_node_result(store, "T2", x).flag
        /\ ~delete_edge_result(store, "T2", e).flag
        /\ query(delete_node_result(store, "T2", x).store, "T1", FromQuery(x))[2] # <<>>

(***************************************************************************)
(* upsert_edge: the transaction time it stores, what it leaves alone.      *)
(***************************************************************************)
\* C16: upsert_edge stamps transaction_start with the current time only if the
\* caller left it unset: an edge submitted with a transaction_start_time of
\* the caller's is stored with that same transaction_start_time.
C16_TransactionStartKept ==
    \A t \in Tenants, e \in TimedEdgeInputs, now \in Times :
        LET r == upsert_edge_result(store, config, t, e, now, next_uuid) IN
        (now >= clock /\ r.kind = "Ok") =>
            r.store.edges[r.id].edge.transaction_start_time = e.transaction_start_time

\* C17: every successful upsert_edge adds exactly one edge record, under an id
\* never used before, and leaves every edge record stored before it and every
\* node as they were, also when an edge of the same from, to and kind is stored.
C17_AppendOnly ==
    [][minted'.edges # minted.edges =>
          LET new == (DOMAIN store'.edges) \ (DOMAIN store.edges) IN
          /\ Cardinality(new) = 1
          /\ new \cap (1..(minted.nodes + minted.edges)) = {}
          /\ DOMAIN store.edges \subseteq DOMAIN store'.edges
          /\ \A x \in DOMAIN store.edges : store'.edges[x] = store.edges[x]
          /\ store'.nodes = store.nodes]_vars

\* two edges of the same from, to and kind are stored side by side, the first
\* with the transaction time of an earlier call
C17_Witness ==
    \E x \in DOMAIN store.edges, y \in DOMAIN store.edges :
        /\ x # y
        /\ store.edges[x].edge.from_node_id = store.edges[y].edge.from_node_id
        /\ store.edges[x].edge.to_node_id = store.edges[y].edge.to_node_id
        /\ store.edges[x].edge.kind = store.edges[y].edge.kind
        /\ store.edges[x].edge.transaction_start_time
              < store.edges[y].edge.transaction_start_time

(***************************************************************************)
(* The pipeline runner: order of the calls, errors, tenant validation.     *)
(***************************************************************************)
\* the calls of a stage whose plugins all return Continue, in registration order
StageCalls(st) ==
    [k \in 1..Len(plugins[st]) |-> [stage |-> st, index |-> k, outcome |-> "Continue"]]

\* every registered plugin returns Continue on this request
AllContinue ==
    \A st \in StageSet : \A k \in 1..Len(plugins[st]) :
        plugin_call(plugins[st][k], ctx)[1] = "Continue"

C19_HaltWithError ==
    \A i \in 1..Len(calls) :
        calls[i].outcome = "HaltWithError" =>
            /\ i = Len(calls)
            /\ ctx.error = "plugin error"
            /\ pc = "returned" => result = [kind |-> "Ok", ctx |-> ctx]

\* execute has returned from a request whose first pre-operation plugin
\* returned HaltWithError, with a second pre-operation plugin and an operation
\* plugin registered
C19_Witness ==
    /\ pc = "returned"
    /\ Len(plugins["PreOperation"]) = 2
    /\ Len(plugins["Operation"]) = 1
    /\ calls = <<[stage |-> "PreOperation", index |-> 1, outcome |-> "HaltWithError"]>>
    /\ result.kind = "Ok"
    /\ result.ctx.error = "plugin error"

\* the tenant validation is registered at position k of the pre-operation
\* stage and every plugin before it returns Continue on this request
ValidationAt(k) ==
    /\ k \in 1..Len(plugins["PreOperation"])
    /\ plugins["PreOperation"][k] = "TenantValidation"
    /\ \A j \in 1..(k - 1) : plugin_call(plugins["PreOperation"][j], ctx)[1] = "Continue"

OwnRecords(s, a) ==
    <<{s.nodes[x] : x \in {y \in DOMAIN s.nodes : s.nodes[y].tenant_id = a}},
      {s.edges[x] : x \in {y \in DOMAIN s.edges : s.edges[y].tenant_id = a}}>>

\* what each operation of tenant a would return on store s: the kind of the
\* result, whether a record is created or deleted, the data read
Outcomes(s, a) ==
    <<[n \in NodeInputs |->
          LET r == upsert_node_result(s, config, a, n, next_uuid) IN <<r.kind, r.flag>>],
      [e \in EdgeInputs |-> upsert_edge_result(s, config, a, e, clock, next_uuid).kind],
      [id \in Ids |-> <<get_node(s, a, id), delete_node_result(s, a, id).flag,
                        delete_edge_result(s, a, id).flag>>],
      [al \in Aliases |-> get_node_by_alias(s, a, al)],
      [q \in FindNodesInputs \cup FindRelationshipsQueries({NoTime}, {NoLimit}) |->
          query(s, a, q)]>>

\* C21: there is no coupling across tenants: a step that leaves tenant A's
\* records as they are (an operation of another tenant) changes the outcome
\* of no operation of A, neither its success or error nor the data it observes.
C21_NoCrossTenantCoupling ==
    [][\A a \in Tenants :
          OwnRecords(store', a) = OwnRecords(store, a) =>
              Outcomes(store', a) = Outcomes(store, a)]_vars

(***************************************************************************)
(* The intervals of the stored edges.                                      *)
(***************************************************************************)
\* edges a caller can build with TimeEdge::new(..).with_valid_to(..) or by
\* writing the public fields: the valid-time interval or the transaction-time
\* interval ends before it starts
InvertedEdgeInputs ==
    {[from_node_id |-> f, to_node_id |-> t, kind |-> "KNOWS",
      valid_from |-> sh[1], valid_to |-> sh[2],
      transaction_start_time |-> sh[3], transaction_end_time |-> sh[4],
      props |-> {}] : f \in Ids, t \in Ids,
                      sh \in {<<1, 0, 0, NoTime>>, <<0, NoTime, MaxTime, 0>>}}

IntervalOrdered(edge) ==
    /\ edge.valid_to # NoTime => edge.valid_from <= edge.valid_to
    /\ edge.transaction_end_time # NoTime =>
          edge.transaction_start_time <= edge.transaction_end_time

\* C22: every edge held by the store has valid_from <= valid_to when valid_to
\* is set and transaction_start <= transaction_end when transaction_end is
\* set: an upsert_edge of an edge whose interval is inverted is rejected with
\* ConstraintViolation and stores nothing.
C22_InvertedIntervalRejected ==
    /\ \A x \in DOMAIN store.edges : IntervalOrdered(store.edges[x].edge)
    /\ \A t \in Tenants, e \in InvertedEdgeInputs, now \in Times :
          LET r == upsert_edge_result(store, config, t, e, now, next_uuid) IN
          (now >= clock /\ node_exists_in(store, t, e.from_node_id)
                        /\ node_exists_in(store, t, e.to_node_id)) =>
              /\ r.kind = "ConstraintViolation"
              /\ r.store = store

\* types.rs 139-141
is_current_version(edge) == edge.transaction_end_time = NoTime

\* C23: superseding closes the prior version: when an upsert_edge succeeds
\* and an edge of the same tenant, from, to and kind is stored already, the
\* earlier record gets transaction_end = the time of this upsert, the new
\* record has transaction_start = that time, and of the two only the new
\* record is a current version.
C23_SupersedingClosesPrior ==
    [][minted'.edges # minted.edges =>
          \A y \in (DOMAIN store'.edges) \ (DOMAIN store.edges) :
              \A x \in DOMAIN store.edges :
                  (/\ store.edges[x].tenant_id = store'.edges[y].tenant_id
                   /\ store.edges[x].edge.from_node_id = store'.edges[y].edge.from_node_id
                   /\ store.edges[x].edge.to_node_id = store'.edges[y].edge.to_node_id
                   /\ store.edges[x].edge.kind = store'.edges[y].edge.kind
                   /\ is_current_version(store.edges[x].edge)) =>
                      /\ store'.edges[x].edge.transaction_end_time = clock'
                      /\ store'.edges[y].edge.transaction_start_time = clock'
                      /\ is_current_version(store'.edges[y].edge)
                      /\ ~is_current_version(store'.edges[x].edge)]_vars

(***************************************************************************)
(* The life of a plugin.                                                   *)
(***************************************************************************)
\* C24: a plugin's init is called exactly once, when the plugin is registered
\* with the runner, and so before any call of that plugin: at every moment
\* the inits made are as many as the plugins registered.
C24_InitOnceAtRegistration == inits = registered

\* C25: for a node write handled by a wire adapter, the pre-operation plugins
\* run before the store's upsert_node is invoked and the post-operation
\* plugins run only after the store operation has returned: of the plugin
\* calls of the request, those of the pre-operation stage are among the calls
\* made when the store was invoked and those of the post-operation stage are
\* not.
C25_StoreBetweenPreAndPost ==
    op_at # NotInvoked =>
        \A k \in 1..Len(calls) :
            /\ calls[k].stage = "PreOperation" => k <= op_at
            /\ calls[k].stage = "PostOperation" => k > op_at

(***************************************************************************)
(* The cap against an update, the limit of a query.                        *)
(***************************************************************************)
\* C27: upsert_node with an alias that is already indexed for the tenant
\* overwrites that node and returns its id in every reachable state, also
\* when the number of stored nodes equals max_nodes: the cap does not refuse
\* an update that creates no node.
C27_UpdateAtCap ==
    \A t \in Tenants, n \in NodeInputs :
        (~would_create(t, n) /\ config.max_nodes # NoLimit
                             /\ Cardinality(DOMAIN store.nodes) = config.max_nodes) =>
            LET r == upsert_node_result(store, config, t, n, next_uuid) IN
            /\ r.kind # "ConstraintViolation"
            /\ r.id = store.nodes_by_alias[<<t, n.id_alias>>]
            /\ ~r.flag
            /\ r.store.nodes[r.id].node = n

\* the first n elements of a sequence (all of it when it is shorter)
FirstN(seq, n) == SubSeq(seq, 1, IF n < Len(seq) THEN n ELSE Len(seq))

\* C28: with limit = n, FindNodes and FindRelationships return at most n
\* paths, for every n including 0, and the paths returned are the first n
\* matches of the same query run without limit.
C28_LimitTruncates ==
    \A t \in Tenants, n \in 0..2 :
        \A q \in {b \in FindNodesInputs \cup FindRelationshipsQueries({NoTime}, {NoLimit}) :
                     b.limit = NoLimit} :
            LET unlimited == query(store, t, q)[2]
                limited == query(store, t, [q EXCEPT !.limit = n])[2]
            IN  /\ Len(limited) <= n
                /\ limited = FirstN(unlimited, n)

(***************************************************************************)
(* The alias of a node through its deletion.                               *)
(***************************************************************************)
\* the nodes of tenant t that carry alias a
AliasHolders(s, t, a) ==
    {x \in DOMAIN s.nodes : s.nodes[x].tenant_id = t /\ s.nodes[x].node.id_alias = a}

\* no edge record and no adjacency bucket of s mentions the node x
NoIncidentEdges(s, x) ==
    /\ s.edges_from_node[x] = <<>>
    /\ s.edges_to_node[x] = <<>>
    /\ \A e \in DOMAIN s.edges :
          s.edges[e].edge.from_node_id # x /\ s.edges[e].edge.to_node_id # x

\* C30: get_node_by_alias(t, a) returns (X, node) exactly when a node with
\* alias a exists in tenant t, X being that node's id; after delete_node(t, X)
\* has returned true, get_node_by_alias(t, a) returns nothing, and the next
\* upsert_node(t, a node with alias a) mints a fresh id, different from X,
\* whose node has no incident edges.
C30_AliasThroughDelete ==
    \A t \in Tenants, a \in Aliases :
        LET g == get_node_by_alias(store, t, a) IN
        /\ g.kind = "Ok"
        /\ (g.id # NoId) <=> (AliasHolders(store, t, a) # {})
        /\ g.id # NoId =>
              /\ AliasHolders(store, t, a) = {g.id}
              /\ g.node = store.nodes[g.id].node
              /\ g.id \notin deleted
              /\ LET d == delete_node_result(store, t, g.id) IN
                 /\ d.flag
                 /\ get_node_by_alias(d.store, t, a)
                       = [kind |-> "Ok", id |-> NoId, node |-> NoNode]
                 /\ minted.nodes < MaxNodeMints =>
                       \A n \in {m \in NodeInputs : m.id_alias = a} :
                           LET r == upsert_node_result(d.store, config, t, n, next_uuid) IN
                           /\ r.kind = "Ok"
                           /\ r.flag
                           /\ r.id # g.id
                           /\ r.id \notin deleted
                           /\ NoIncidentEdges(r.store, r.id)
                           /\ get_node_by_alias(r.store, t, a)
                                 = [kind |-> "Ok", id |-> r.id, node |-> n]

\* the node that holds the alias has an edge from and to it, a node was
\* deleted before, and the alias can be deleted and given to a new node
C30_Witness ==
    \E a \in Aliases :
        LET g == get_node_by_alias(store, "T1", a) IN
        /\ g.id # NoId
        /\ store.edges_from_node[g.id] # <<>>
        /\ store.edges_to_node[g.id] # <<>>
        /\ minted.nodes < MaxNodeMints
        /\ LET d == delete_node_result(store, "T1", g.id)
               r == upsert_node_result(d.store, config, "T1",
                                       [id_alias |-> a, label |-> "Person", props |-> {}],
                                       next_uuid)
           IN  d.flag /\ DOMAIN d.store.edges # DOMAIN store.edges /\ r.flag /\ r.id > g.id

(***************************************************************************)
(* The store under parallel tasks.                                         *)
(***************************************************************************)
\* tasks j and k have returned from upsert_node calls that overlapped in time
\* and named the same tenant and alias
ConcurrentAliasUpserts(j, k) ==
    /\ j # k
    /\ tasks[j].pc = "idle" /\ tasks[k].pc = "idle"
    /\ tasks[j].overlap /\ tasks[k].overlap
    /\ tasks[j].op.type = "upsert_node" /\ tasks[k].op.type = "upsert_node"
    /\ tasks[j].op.tenant = tasks[k].op.tenant
    /\ tasks[j].op.arg.id_alias # NoAlias
    /\ tasks[j].op.arg.id_alias = tasks[k].op.arg.id_alias

\* C26: store operations issued by parallel tasks are linearizable and no
\* reader sees an index that disagrees with the primary maps; in particular
\* two concurrent upsert_node calls with the same tenant and alias return the
\* same id and store a single node.
C26_ConcurrentUpsertsAgree ==
    /\ \A k \in Tasks : tasks[k].result.kind # "DatabaseError"
    /\ \A j \in Tasks, k \in Tasks :
          ConcurrentAliasUpserts(j, k) =>
              /\ tasks[j].result.kind = "Ok"
              /\ tasks[k].result.kind = "Ok"
              /\ tasks[j].result.id = tasks[k].result.id
              /\ AliasHolders(store, tasks[j].op.tenant, tasks[j].op.arg.id_alias)
                    = {tasks[j].result.id}

\* C29: every store call eventually returns under any interleaving of readers
\* and writers, also an AsOfQuery over a FindRelationships base when a writer
\* asks for the exclusive lock between its two shared acquisitions.
C29_EveryCallReturns ==
    \A k \in Tasks : (tasks[k].pc # "idle") ~> (tasks[k].pc = "idle")

=============================================================================
